---- MODULE Spec2Model ----
(***************************************************************************)
(* The event-stream orchestration loops of the workflow samples:           *)
(*   plan      Magentic.HumanPlanUpdate.py            (main)               *)
(*   clar      Magentic.AgentClarification.py         (main)               *)
(*   reqinfo   Sequential.ExistingAgents.WithRequestInfo.py (run_workflow) *)
(*   magentic  Magentic.py                            (main)               *)
(*   errh      Sequential.ExistingAgents.ErrorHandling.py   (run_workflow) *)
(* The workflow engine and the operator are the environment: the engine    *)
(* emits events one at a time and ends or raises a stream, the operator    *)
(* types lines at the prompts.                                             *)
(***************************************************************************)
EXTENDS Integers, Sequences, FiniteSets

\* Bounds of the exploration.
MaxCalls == 3
MaxEvents == 3
MaxPrompts == 2

\* Optional values: None is the empty sequence, Some(x) a one-element one.
None == <<>>
Some(x) == <<x>>

Samples == {"plan", "clar", "reqinfo", "magentic", "errh"}
HitlSamples == {"plan", "clar", "reqinfo"}

\* ---------------------------------------------------------------------------
\* The environment's alphabets.
Agents == {"A", "B"}
\* The run loops stream one agent; a second agent is streamed where the
\* rendering of agent changes is studied (FeedDeltas).
Deltas == { <<"A", "Hello ">>, <<"A", "world">> }
NoAgent == "None"
MagenticKinds == {"PLAN_REVIEW", "TOOL_APPROVAL"}
SequentialKinds == {"AGENT_INPUT", "OTHER_REQUEST"}
\* The requests the workflow a sample builds can emit.
EngineKinds(s) == IF s = "reqinfo" THEN SequentialKinds ELSE MagenticKinds
Payloads == {<<>>, <<"done">>, <<"draft", "Hello world">>}
Failures ==
  { [kind |-> "ToolError", message |-> "db down", participant |-> "OrderAgent"],
    [kind |-> "RuntimeError", message |-> "Product not found in catalog",
     participant |-> "CatalogAgent"] }
TransportErrors == { [kind |-> "ConnectionError", message |-> "stream reset"] }
RawChoices == {"1", " Approve ", "3", "4", "5", "EXIT", "7"}
RawComments == {"", "add tax"}
RawPlans == {<<>>}
RawGuidance == {"", "  ", "add tax"}
RawAnswers == {"", "Engineering", "Exit"}

\* The exception the engine re-raises for a failure it has reported.
ExceptionOf(f) == [kind |-> f.kind, message |-> f.message]

VARIABLES
  sample,               \* which sample's loop runs
  pc,                   \* "loop" | "stream" | "prompt" | "done"
  pending_request,      \* None or Some(request event)
  pending_responses,    \* None or Some(mapping request id -> reply)
  completed,            \* completed / workflow_complete
  workflow_output,      \* workflow_output / output: None or Some(..)
  last_stream_agent_id,
  stream_line_open,
  console,              \* what has been printed, as tokens
  outcome,              \* "running" | "completed" | "exit" | "caught" | "raised"
  propagated,           \* the exception that left the loop, if any
  result,               \* the final result reported at the end, if any
  calls,                \* the stream calls made, in order
  segreqs,              \* per stream call, the requests its stream delivered
  outstanding,          \* engine: requests emitted and not yet answered
  next_request_id,      \* engine: id of the next request
  failing,              \* engine: the failure being reported, if any
  reported,             \* engine: which failure events it has delivered (1..3)
  stream_error,         \* engine: the exception the stream raised, if any
  last_output,          \* the payload of the last Output event delivered
  after_output,         \* an event was processed after an Output event
  last_event,           \* the kind of the last event delivered
  nevents,              \* events delivered in this run
  nprompts              \* operator inputs solicited in this run

vars == << sample, pc, pending_request, pending_responses, completed,
           workflow_output, last_stream_agent_id, stream_line_open, console,
           outcome, propagated, result, calls, segreqs, outstanding,
           next_request_id, failing, reported, stream_error, last_output,
           after_output, last_event, nevents, nprompts >>

loopVars == << pending_request, pending_responses, completed, workflow_output >>
lineVars == << last_stream_agent_id, stream_line_open >>
endVars == << outcome, propagated, result >>
callVars == << calls, segreqs >>
engineVars == << outstanding, next_request_id, failing, reported, stream_error >>

\* ---------------------------------------------------------------------------
\* Two runs of a rendering loop over one event sequence (Magentic.py,
\* Magentic.HumanPlanUpdate.py and AzureAI.Orchestration.GroupChat.py).
VARIABLES
  renderer,             \* which sample's loop renders: "plan" | "magentic" | "groupchat"
  fed,                  \* the events the first run was fed, in order
  instance,             \* 1: first run, 2: second run, 3: both have ended
  pos,                  \* second run: index in fed of the next event
  line,                 \* the running instance's console and line state
  output,               \* the running instance's captured output
  first,                \* what the first run rendered and reported
  second                \* what the second run rendered and reported

renderVars == << renderer, fed, instance, pos, line, output, first, second >>

RenderIdle ==
  /\ renderer = "none" /\ fed = <<>> /\ instance = 0 /\ pos = 0
  /\ line = <<>> /\ output = None /\ first = None /\ second = None

\* ---------------------------------------------------------------------------
\* The context shown with a request for input
\* (Sequential.ExistingAgents.WithRequestInfo.py, run_workflow).
VARIABLES
  conversation,         \* event.data.conversation
  recent,               \* the messages selected for display
  shown,                \* the context lines printed, in order
  ctx_pc                \* "request" | "printing" | "input"

ctxVars == << conversation, recent, shown, ctx_pc >>

ContextIdle ==
  conversation = <<>> /\ recent = <<>> /\ shown = <<>> /\ ctx_pc = "idle"

\* ---------------------------------------------------------------------------
\* The conditional-edges workflow (Workflows/ConditionalEdges.py).
VARIABLES
  inbox,                \* engine: messages routed and not yet delivered
  trace,                \* the executors that ran, with response and targets
  outputs,              \* what the executors yielded, in order
  shown_output          \* what main printed at the end

edgeVars == << inbox, trace, outputs, shown_output >>

EdgesIdle ==
  inbox = {} /\ trace = <<>> /\ outputs = <<>> /\ shown_output = "idle"

\* ---------------------------------------------------------------------------
\* The group chat's speaker selection (AzureAI.Orchestration.GroupChat.py).
VARIABLES
  round_index,          \* state["round_index"]
  history,              \* state["history"]: the turns so far
  speaker,              \* the speaker selected for the turn under way, if any
  selected,             \* what select_next_speaker returned, call by call
  chat_start,           \* the round index and history the chat started with
  chat_pc               \* "select" | "speak" | "finished"

chatVars == << round_index, history, speaker, selected, chat_start, chat_pc >>

ChatIdle ==
  /\ round_index = 0 /\ history = <<>> /\ speaker = None /\ selected = <<>>
  /\ chat_start = None /\ chat_pc = "idle"

\* ---------------------------------------------------------------------------
\* The cleanup script (AzureAI.CleanUp.py).
VARIABLES
  environ,              \* os.environ: the three endpoint variables
  project_endpoint,
  confirmation,         \* what the operator typed, if asked
  clean_pc,             \* "start" | "confirm" | a resource kind | "summary" | "done"
  todo,                 \* the listed resources still to delete, None before listing
  list_calls,           \* the list calls issued, by resource kind
  delete_calls,         \* the delete calls issued: kind, id and whether it raised
  total_deleted,
  total_failed,
  deleted,              \* the running cleanup function's local counters
  failed,
  returned              \* what the cleanup function that returned last returned

cleanVars == << environ, project_endpoint, confirmation, clean_pc, todo,
                list_calls, delete_calls, total_deleted, total_failed,
                deleted, failed, returned >>

CleanIdle ==
  /\ environ = <<>> /\ project_endpoint = None /\ confirmation = None
  /\ clean_pc = "idle" /\ todo = None /\ list_calls = <<>> /\ delete_calls = <<>>
  /\ total_deleted = 0 /\ total_failed = 0
  /\ deleted = 0 /\ failed = 0 /\ returned = None

\* ---------------------------------------------------------------------------
\* The hosted agent with a custom MCP server (HostedAgent/MCPCustom/main.py).
VARIABLES
  MCP_BEARER_TOKEN,     \* os.getenv("MCP_BEARER_TOKEN"): None or Some(string)
  headers,              \* mcp_tool.headers.get("Authorization"): None or Some(token)
  is_connected,         \* mcp_tool.is_connected
  current_token,        \* current_token[0]
  handlers,             \* the wrapped_agent_run coroutines, one per request
  tool_calls            \* the close, connect and agent_run calls issued, in order

mcpVars == << MCP_BEARER_TOKEN, headers, is_connected, current_token, handlers,
              tool_calls >>

McpIdle ==
  /\ MCP_BEARER_TOKEN = None /\ headers = None /\ is_connected = FALSE
  /\ current_token = None /\ handlers = <<>> /\ tool_calls = <<>>

\* The variables of the other programs, which the loops above leave alone.
auxVars == << renderVars, ctxVars, edgeVars, chatVars, cleanVars, mcpVars >>
AuxIdle == RenderIdle /\ ContextIdle /\ EdgesIdle /\ ChatIdle /\ CleanIdle /\ McpIdle

\* What each of the other programs leaves alone.
renderRest == << vars, ctxVars, edgeVars, chatVars, cleanVars, mcpVars >>
RenderRestIdle == ContextIdle /\ EdgesIdle /\ ChatIdle /\ CleanIdle /\ McpIdle
ctxRest == << vars, renderVars, edgeVars, chatVars, cleanVars, mcpVars >>
ContextRestIdle == RenderIdle /\ EdgesIdle /\ ChatIdle /\ CleanIdle /\ McpIdle
edgeRest == << vars, renderVars, ctxVars, chatVars, cleanVars, mcpVars >>
EdgesRestIdle == RenderIdle /\ ContextIdle /\ ChatIdle /\ CleanIdle /\ McpIdle
chatRest == << vars, renderVars, ctxVars, edgeVars, cleanVars, mcpVars >>
ChatRestIdle == RenderIdle /\ ContextIdle /\ EdgesIdle /\ CleanIdle /\ McpIdle
cleanRest == << vars, renderVars, ctxVars, edgeVars, chatVars, mcpVars >>
CleanRestIdle == RenderIdle /\ ContextIdle /\ EdgesIdle /\ ChatIdle /\ McpIdle
mcpRest == << vars, renderVars, ctxVars, edgeVars, chatVars, cleanVars >>
McpRestIdle == RenderIdle /\ ContextIdle /\ EdgesIdle /\ ChatIdle /\ CleanIdle

Init ==
  /\ AuxIdle
  /\ sample \in Samples
  /\ pc = "loop"
  /\ pending_request = None
  /\ pending_responses = None
  /\ completed = FALSE
  /\ workflow_output = None
  /\ last_stream_agent_id = NoAgent
  /\ stream_line_open = FALSE
  /\ console = <<>>
  /\ outcome = "running"
  /\ propagated = None
  /\ result = None
  /\ calls = <<>>
  /\ segreqs = <<>>
  /\ outstanding = {}
  /\ next_request_id = 1
  /\ failing = None
  /\ reported = {}
  /\ stream_error = None
  /\ last_output = None
  /\ after_output = FALSE
  /\ last_event = "none"
  /\ nevents = 0
  /\ nprompts = 0

\* ---------------------------------------------------------------------------
\* Starting and resuming a stream.

\* Variant: while True, the completion flag is not looked at.
LoopContinuesAlways(done) == TRUE

\* The while condition of the three human-in-the-loop loops.
LoopContinues(done) == ~done

\* Which call the top of the loop makes.
UseResume(s, pr) ==
  CASE s \in {"plan", "clar"} -> pr # None
    [] s = "reqinfo" -> pr # None /\ DOMAIN pr[1] # {}
    [] OTHER -> FALSE

NextCall(s, pr) ==
  IF UseResume(s, pr)
  THEN [op |-> "send_responses_streaming", replies |-> pr[1]]
  ELSE [op |-> "run_stream", replies |-> <<>>]

StreamCall ==
  /\ pc = "loop"
  /\ LoopContinues(completed)
  /\ Len(calls) < MaxCalls
  /\ LET call == NextCall(sample, pending_responses) IN
       /\ calls' = Append(calls, call)
       /\ outstanding' = outstanding \ DOMAIN call.replies
  /\ segreqs' = Append(segreqs, <<>>)
  /\ pending_responses' = IF sample = "reqinfo" THEN None ELSE pending_responses
  /\ pc' = "stream"
  /\ UNCHANGED << auxVars, sample, pending_request, completed, workflow_output, lineVars,
                  console, endVars, next_request_id, failing, reported,
                  stream_error, last_output, after_output, last_event, nevents, nprompts >>

\* ---------------------------------------------------------------------------
\* Rendering: the console is a sequence of tokens; <<"nl">> is a line break.

RenderState == [console |-> console, last |-> last_stream_agent_id,
                open |-> stream_line_open]

\* if stream_line_open: print(); stream_line_open = False
CloseLine(r) ==
  IF r.open
  THEN [r EXCEPT !.console = Append(r.console, <<"nl">>), !.open = FALSE]
  ELSE r

\* Variant: every delta starts a new line with a header.
RenderDeltaAlways(r, agent, text) ==
  [console |-> (IF r.open THEN Append(r.console, <<"nl">>) ELSE r.console)
                 \o << <<"nl">>, <<"hdr", agent>> >>
                 \o (IF text # "" THEN << <<"txt", text>> >> ELSE <<>>),
   last |-> agent, open |-> TRUE]

\* The MAGENTIC_EVENT_TYPE_AGENT_DELTA branch (the same in plan, clar, magentic).
RenderDelta(r, agent, text) ==
  LET fresh == r.last # agent \/ ~r.open
      closed == IF r.open THEN Append(r.console, <<"nl">>) ELSE r.console
      c1 == IF fresh THEN closed \o << <<"nl">>, <<"hdr", agent>> >> ELSE r.console
      c2 == IF text # "" THEN Append(c1, <<"txt", text>>) ELSE c1
  IN [console |-> c2,
      last |-> IF fresh THEN agent ELSE r.last,
      open |-> IF fresh THEN TRUE ELSE r.open]

\* The MAGENTIC_EVENT_TYPE_ORCHESTRATOR branch: clar closes the open line
\* first, plan and magentic print the block as it is.
RenderOrch(s, r, kind, text) ==
  LET r0 == IF s = "clar" THEN CloseLine(r) ELSE r
  IN [r0 EXCEPT !.console = r0.console \o << <<"nl">>, <<"orch", kind, text>>, <<"nl">> >>]

Emit(r, tokens) == [r EXCEPT !.console = r.console \o tokens]

SetRender(r) ==
  /\ console' = r.console
  /\ last_stream_agent_id' = r.last
  /\ stream_line_open' = r.open

\* ---------------------------------------------------------------------------
\* One event delivered by the stream into the async for loop.

Delivered(type) ==
  /\ pc = "stream"
  /\ last_event' = type
  /\ nevents < MaxEvents
  /\ nevents' = nevents + 1
  /\ after_output' = (after_output \/ last_output # None)

\* The workflows of plan, clar and magentic are Magentic workflows, which
\* stream agent updates; reqinfo and errh run sequential workflows and have
\* no branch for them.
MagenticSamples == {"plan", "clar", "magentic"}

\* AgentRunUpdateEvent, magentic_event_type == agent delta.
OnAgentDelta(agent, text) ==
  /\ Delivered("delta")
  /\ failing = None
  /\ sample \in MagenticSamples
  /\ SetRender(RenderDelta(RenderState, agent, text))
  /\ UNCHANGED << auxVars, sample, pc, loopVars, endVars, callVars, engineVars,
                  last_output, nprompts >>

\* AgentRunUpdateEvent, magentic_event_type == orchestrator.
OnOrchestratorNote(kind, text) ==
  /\ Delivered("orchestrator")
  /\ failing = None
  /\ sample \in MagenticSamples
  /\ SetRender(RenderOrch(sample, RenderState, kind, text))
  /\ UNCHANGED << auxVars, sample, pc, loopVars, endVars, callVars, engineVars,
                  last_output, nprompts >>

\* AgentRunUpdateEvent without a magentic event type: only magentic has a
\* branch for it, and prints its text.
OnOtherUpdate(text) ==
  /\ Delivered("update")
  /\ failing = None
  /\ sample = "magentic"
  /\ IF text # ""
     THEN SetRender(Emit(RenderState, << <<"txt", text>> >>))
     ELSE UNCHANGED << console, lineVars >>
  /\ UNCHANGED << auxVars, sample, pc, loopVars, endVars, callVars, engineVars,
                  last_output, nprompts >>

\* ---------------------------------------------------------------------------
\* Operator input: what .strip() and .lower() make of the raw lines.

Strip(raw) ==
  CASE raw = "  " -> ""
    [] raw = " Approve " -> "Approve"
    [] OTHER -> raw

Lower(x) ==
  CASE x = "Approve" -> "approve"
    [] x = "EXIT" -> "exit"
    [] x = "Exit" -> "exit"
    [] OTHER -> x

\* comments if comments else None
Truthy(text) == IF text # "" THEN Some(text) ELSE None

\* ---------------------------------------------------------------------------
\* RequestInfoEvent.

RequestEvent(id, kind) == [request_id |-> id, kind |-> kind]

\* user_input, or the default when it is blank.
Guidance(raw) ==
  IF Strip(raw) = "" THEN "Please continue with the order processing." ELSE raw

\* The mapping built for one request: {request_id: reply}.
ReplyMapping(id, reply) == [r \in {id} |-> reply]

OnRequestInfo(kind, raw) ==
  /\ Delivered("request")
  /\ failing = None
  /\ sample \in HitlSamples
  /\ kind \in EngineKinds(sample)
  /\ LET id == next_request_id
         ev == RequestEvent(id, kind)
     IN
       /\ next_request_id' = id + 1
       /\ outstanding' = outstanding \cup {id}
       /\ segreqs' = [segreqs EXCEPT ![Len(segreqs)] = Append(@, ev)]
       /\ CASE sample = "plan" ->
                 \* request_type is MagenticHumanInterventionRequest, kind PLAN_REVIEW
                 /\ raw = ""
                 /\ IF kind \in MagenticKinds /\ kind = "PLAN_REVIEW"
                    THEN /\ pending_request' = Some(ev)
                         /\ console' = Append(console, <<"plan_review", id>>)
                    ELSE UNCHANGED << pending_request, console >>
                 /\ UNCHANGED << pending_responses, lineVars, nprompts >>
            [] sample = "clar" ->
                 /\ raw = ""
                 /\ IF kind \in MagenticKinds
                    THEN /\ pending_request' = Some(ev)
                         /\ SetRender(
                              IF kind = "TOOL_APPROVAL"
                              THEN Emit(CloseLine(RenderState), << <<"clarification", id>> >>)
                              ELSE CloseLine(RenderState))
                    ELSE UNCHANGED << pending_request, console, lineVars >>
                 /\ UNCHANGED << pending_responses, nprompts >>
            [] sample = "reqinfo" ->
                 \* isinstance(event.data, AgentInputRequest): input() is read here
                 /\ IF kind = "AGENT_INPUT"
                    THEN /\ raw \in RawGuidance
                         /\ console' = console \o << <<"input_requested", id>>, <<"resuming">> >>
                         /\ nprompts' = nprompts + 1
                         /\ pending_responses' = Some(ReplyMapping(id, Guidance(raw)))
                    ELSE /\ raw = ""
                         /\ UNCHANGED << console, nprompts, pending_responses >>
                 /\ UNCHANGED << pending_request, lineVars >>
  /\ UNCHANGED << auxVars, sample, pc, completed, workflow_output, endVars, calls,
                  failing, reported, stream_error, last_output >>

\* ---------------------------------------------------------------------------
\* WorkflowOutputEvent.

\* Variant: the first message of the payload is captured instead of the last.
CaptureFirst(prev, payload) ==
  IF payload # <<>> THEN Some(payload[1]) ELSE prev

\* if output_messages: workflow_output = output_messages[-1].text
CaptureLast(prev, payload) ==
  IF payload # <<>> THEN Some(payload[Len(payload)]) ELSE prev

\* workflow_output = event.data if event.data else None
CaptureData(payload) == IF payload # <<>> THEN Some(payload) ELSE None

\* Variant: the Output branch forgets completed = True.
ForgetsComplete(s) == FALSE

\* Whether the handler marks the loop complete (magentic and errh have no loop).
MarksComplete(s) == s \in HitlSamples

OnOutput(payload) ==
  /\ Delivered("output")
  /\ failing = None
  /\ sample # "errh"
  /\ last_output' = Some(payload)
  /\ completed' = IF MarksComplete(sample) THEN TRUE ELSE completed
  /\ CASE sample \in {"plan", "magentic"} ->
            /\ workflow_output' = CaptureLast(workflow_output, payload)
            /\ UNCHANGED << console, lineVars >>
       [] sample = "clar" ->
            /\ workflow_output' = CaptureData(payload)
            /\ SetRender(CloseLine(RenderState))
       [] sample = "reqinfo" ->
            /\ console' = console \o << <<"workflow_complete">>, <<"conversation", payload>> >>
            /\ UNCHANGED << workflow_output, lineVars >>
       [] OTHER ->
            UNCHANGED << workflow_output, console, lineVars >>
  /\ UNCHANGED << auxVars, sample, pc, pending_request, pending_responses, endVars,
                  callVars, engineVars, nprompts >>

\* ---------------------------------------------------------------------------
\* WorkflowStatusEvent outside a failure. The engine reports IDLE only when
\* it waits for no reply.

IdleState == IF outstanding = {} THEN "IDLE" ELSE "IDLE_WITH_PENDING_REQUESTS"

OnStatus(state) ==
  /\ Delivered("status")
  /\ failing = None
  /\ sample \in {"reqinfo", "errh"}
  /\ state = IdleState
  /\ completed' = IF sample = "reqinfo" /\ state = "IDLE" THEN TRUE ELSE completed
  /\ console' = IF sample = "errh" /\ state = "IDLE"
                THEN Append(console, <<"status", "IDLE">>) ELSE console
  /\ UNCHANGED << auxVars, sample, pc, pending_request, pending_responses, workflow_output,
                  lineVars, endVars, callVars, engineVars, last_output, nprompts >>

\* ---------------------------------------------------------------------------
\* The failure events: ExecutorFailedEvent, WorkflowFailedEvent and
\* WorkflowStatusEvent(FAILED). Once the engine reports a failure it reports
\* nothing else, in this order, and the stream ends by raising the exception.

FailureStep(f, phase) ==
  /\ failing = None \/ failing = Some(f)
  /\ \A p \in reported : p < phase
  /\ failing' = Some(f)
  /\ reported' = reported \cup {phase}

OnExecutorFailed(f) ==
  /\ Delivered("executor_failed")
  /\ FailureStep(f, 1)
  /\ console' = IF sample = "errh"
                THEN Append(console, <<"executor_failed", f.participant, ExceptionOf(f)>>)
                ELSE console
  /\ UNCHANGED << auxVars, sample, pc, loopVars, lineVars, endVars, callVars, outstanding,
                  next_request_id, stream_error, last_output, nprompts >>

\* What ErrorHandling prints of a WorkflowFailedEvent's details.
FailureReport(f) ==
  << <<"workflow_failed">>, <<"error_type", f.kind>>, <<"message", f.message>> >>
  \o (IF f.participant # "" THEN << <<"failed_executor", f.participant>> >> ELSE <<>>)

OnWorkflowFailed(f) ==
  /\ Delivered("workflow_failed")
  /\ FailureStep(f, 2)
  /\ console' = IF sample = "errh" THEN console \o FailureReport(f) ELSE console
  /\ UNCHANGED << auxVars, sample, pc, loopVars, lineVars, endVars, callVars, outstanding,
                  next_request_id, stream_error, last_output, nprompts >>

OnStatusFailed(f) ==
  /\ Delivered("status_failed")
  /\ FailureStep(f, 3)
  /\ console' = IF sample = "errh"
                THEN Append(console, <<"status", "FAILED">>) ELSE console
  /\ UNCHANGED << auxVars, sample, pc, loopVars, lineVars, endVars, callVars, outstanding,
                  next_request_id, stream_error, last_output, nprompts >>

\* ---------------------------------------------------------------------------
\* The stream is exhausted: the code after the async for loop.

\* Whether the loop now collects operator input for the stored request.
Prompts(s, pending) ==
  CASE s = "plan" -> pending # None
    [] s = "clar" -> pending # None /\ pending[1].kind = "TOOL_APPROVAL"
    [] OTHER -> FALSE

\* The final result a sample reports from what it captured.
FinalResult(s, captured) ==
  CASE s \in {"plan", "magentic"} -> captured
    [] s = "clar" ->
         IF captured # None THEN Some(captured[1][Len(captured[1])]) ELSE None
    [] OTHER -> None

FinalReport(s, captured) ==
  (IF s = "clar" THEN << <<"workflow_completed">> >> ELSE <<>>)
  \o (IF FinalResult(s, captured) # None
      THEN << <<"final_result", FinalResult(s, captured)[1]>> >> ELSE <<>>)

\* Variant: the mapping sent with the last call is kept after the stream.
ResponsesKept(s, pr) == pr

\* pending_responses = None after the async for loop (plan and clar).
ResponsesAfterStream(s, pr) == None

StreamEnd ==
  /\ pc = "stream"
  /\ failing = None
  /\ CASE sample \in {"plan", "clar"} ->
            /\ pending_responses' = ResponsesAfterStream(sample, pending_responses)
            /\ IF Prompts(sample, pending_request)
               THEN /\ pc' = "prompt"
                    /\ SetRender(Emit(CloseLine(RenderState), << <<"options">> >>))
                    /\ UNCHANGED pending_request
               ELSE /\ pc' = "loop"
                    /\ SetRender(CloseLine(RenderState))
                    /\ pending_request' = None
            /\ UNCHANGED endVars
       [] sample = "reqinfo" ->
            /\ pc' = "loop"
            /\ UNCHANGED << pending_request, pending_responses, console, lineVars,
                            endVars >>
       [] sample = "magentic" ->
            /\ pc' = "done"
            /\ SetRender(Emit(CloseLine(RenderState), FinalReport(sample, workflow_output)))
            /\ result' = FinalResult(sample, workflow_output)
            /\ outcome' = "completed"
            /\ UNCHANGED << pending_request, pending_responses, propagated >>
       [] OTHER ->
            /\ pc' = "done"
            /\ outcome' = "completed"
            /\ UNCHANGED << pending_request, pending_responses, console, lineVars,
                            propagated, result >>
  /\ UNCHANGED << auxVars, sample, completed, workflow_output, callVars, engineVars,
                  last_output, after_output, last_event, nevents, nprompts >>

\* The while condition is false: the code after the loop.
Finish ==
  /\ pc = "loop"
  /\ sample \in HitlSamples
  /\ ~LoopContinues(completed)
  /\ pc' = "done"
  /\ outcome' = "completed"
  /\ result' = FinalResult(sample, workflow_output)
  /\ console' = console \o FinalReport(sample, workflow_output)
  /\ UNCHANGED << auxVars, sample, loopVars, lineVars, propagated, callVars, engineVars,
                  last_output, after_output, last_event, nevents, nprompts >>

\* ---------------------------------------------------------------------------
\* The stream raises: a reported failure's exception, or a transport error.

Raisable ==
  IF failing # None THEN {ExceptionOf(failing[1])} ELSE TransportErrors

\* Variant: no sample has an exception handler.
CatchesNothing(s) == FALSE

\* plan, clar, magentic and errh wrap the loop in try/except Exception;
\* run_workflow of reqinfo has no handler.
Catches(s) == s # "reqinfo"

\* Variant: the exception is handled inside the while loop of the
\* human-in-the-loop samples, which then goes round again.
AfterErrorResume(s) == IF s \in HitlSamples THEN "loop" ELSE "done"

\* Variant: every sample calls the stream again after an exception.
AfterErrorRetry(s) == "loop"

\* Where control goes once the handler has run: the try statement encloses
\* the whole loop, so the function ends.
AfterError(s) == "done"

\* Variant: the handler prints a fixed text without the exception.
ErrorReportGeneric(s, e) ==
  IF s = "reqinfo" THEN <<>> ELSE << <<"execution_failed", "error">> >>

\* What the except branch prints.
ErrorReport(s, e) ==
  CASE s = "plan" -> << <<"execution_failed", e.message>>, <<"exception", e.message>> >>
    [] s \in {"clar", "magentic"} -> << <<"execution_failed", e.message>> >>
    [] s = "errh" -> << <<"caught">>, <<"caught_type", e.kind>>,
                        <<"caught_message", e.message>> >>
    [] OTHER -> <<>>

StreamRaise(e) ==
  /\ pc = "stream"
  /\ e \in Raisable
  /\ stream_error' = Some(e)
  /\ pc' = AfterError(sample)
  /\ IF Catches(sample)
     THEN /\ outcome' = "caught"
          /\ console' = console \o ErrorReport(sample, e)
          /\ UNCHANGED propagated
     ELSE /\ outcome' = "raised"
          /\ propagated' = Some(e)
          /\ UNCHANGED console
  /\ UNCHANGED << auxVars, sample, loopVars, lineVars, result, callVars, outstanding,
                  next_request_id, failing, reported, last_output, after_output,
                  last_event, nevents, nprompts >>

\* ---------------------------------------------------------------------------
\* Input collection after the stream (plan and clar).

ApproveChoices == {"approve", "1"}
CommentChoices == {"approve with comments", "2"}
ReviseChoices == {"revise", "3"}
EditChoices == {"edit", "4"}
ExitChoices == {"exit", "5"}
ValidChoices == ApproveChoices \cup CommentChoices \cup ReviseChoices \cup EditChoices

PlanReply(choice, comments, lines) ==
  CASE choice \in ApproveChoices ->
         [decision |-> "APPROVE", comments |-> None, edited_plan_text |-> None]
    [] choice \in CommentChoices ->
         [decision |-> "APPROVE", comments |-> Truthy(Strip(comments)),
          edited_plan_text |-> None]
    [] choice \in ReviseChoices ->
         [decision |-> "REVISE", comments |-> Truthy(Strip(comments)),
          edited_plan_text |-> None]
    [] choice \in EditChoices ->
         [decision |-> "REVISE", comments |-> None,
          edited_plan_text |-> IF lines # <<>> THEN Some(lines) ELSE None]

\* What an exit choice leaves of the run.
ExitOutcome == "exit"

\* Variant: an exit choice only leaves input collection.
AfterExitContinue(s) == "loop"

\* Where control goes on an exit choice: return.
AfterExit(s) == "done"

\* Variant: an invalid choice ends input collection without a reply.
AfterInvalidContinue(s) == "loop"

\* Where control goes on an invalid choice: round the while True loop again.
AfterInvalid(s) == "prompt"

PlanChoice(raw, comments, lines) ==
  /\ pc = "prompt"
  /\ sample = "plan"
  /\ LET choice == Lower(Strip(raw)) IN
       CASE choice \in ValidChoices ->
              /\ pending_responses' =
                   Some(ReplyMapping(pending_request[1].request_id,
                                     PlanReply(choice, comments, lines)))
              /\ pending_request' = None
              /\ pc' = "loop"
              /\ nprompts' = nprompts + 1
              /\ UNCHANGED << console, outcome >>
         [] choice \in ExitChoices ->
              /\ console' = Append(console, <<"exiting">>)
              /\ outcome' = ExitOutcome
              /\ pc' = AfterExit(sample)
              /\ nprompts' = nprompts + 1
              /\ UNCHANGED << pending_request, pending_responses >>
         [] OTHER ->
              /\ nprompts < MaxPrompts
              /\ console' = Append(console, <<"invalid_choice">>)
              /\ nprompts' = nprompts + 1
              /\ pc' = AfterInvalid(sample)
              /\ UNCHANGED << pending_request, pending_responses, outcome >>
  /\ UNCHANGED << auxVars, sample, completed, workflow_output, lineVars, propagated, result,
                  callVars, engineVars, last_output, after_output, last_event, nevents >>

ClarReply(answer) ==
  [decision |-> "APPROVE",
   response_text |-> IF answer # "" THEN answer
                     ELSE "No additional information provided."]

ClarAnswer(raw) ==
  /\ pc = "prompt"
  /\ sample = "clar"
  /\ nprompts' = nprompts + 1
  /\ LET answer == Strip(raw) IN
       IF Lower(answer) = "exit"
       THEN /\ console' = Append(console, <<"exiting">>)
            /\ outcome' = ExitOutcome
            /\ pc' = AfterExit(sample)
            /\ UNCHANGED << pending_request, pending_responses >>
       ELSE /\ pending_responses' =
                 Some(ReplyMapping(pending_request[1].request_id, ClarReply(answer)))
            /\ pending_request' = None
            /\ pc' = "loop"
            /\ UNCHANGED << console, outcome >>
  /\ UNCHANGED << auxVars, sample, completed, workflow_output, lineVars, propagated, result,
                  callVars, engineVars, last_output, after_output, last_event, nevents >>

\* ---------------------------------------------------------------------------
Next ==
  \/ StreamCall
  \/ \E d \in Deltas : OnAgentDelta(d[1], d[2])
  \/ OnOrchestratorNote("task_ledger", "plan")
  \/ OnOtherUpdate("chunk")
  \/ \E k \in MagenticKinds \cup SequentialKinds, raw \in RawGuidance : OnRequestInfo(k, raw)
  \/ \E p \in Payloads : OnOutput(p)
  \/ \E st \in {"IDLE", "IDLE_WITH_PENDING_REQUESTS"} : OnStatus(st)
  \/ \E f \in Failures : OnExecutorFailed(f)
  \/ \E f \in Failures : OnWorkflowFailed(f)
  \/ \E f \in Failures : OnStatusFailed(f)
  \/ StreamEnd
  \/ \E e \in TransportErrors \cup {ExceptionOf(f) : f \in Failures} : StreamRaise(e)
  \/ Finish
  \/ \E raw \in RawChoices, c \in RawComments, l \in RawPlans : PlanChoice(raw, c, l)
  \/ \E raw \in RawAnswers : ClarAnswer(raw)

Spec == Init /\ [][Next]_vars

\* ===========================================================================
\* The rendering loops of Magentic.py, Magentic.HumanPlanUpdate.py and
\* AzureAI.Orchestration.GroupChat.py over one stream without requests: the
\* engine feeds a first instance of the loop an event sequence, and then a
\* second, fresh instance the same sequence.

MaxFeed == 3

RenderSamples == {"plan", "magentic", "groupchat"}

\* The loops above at rest.
LoopIdle ==
  /\ sample = "none" /\ pc = "done"
  /\ pending_request = None /\ pending_responses = None
  /\ completed = FALSE /\ workflow_output = None
  /\ last_stream_agent_id = NoAgent /\ stream_line_open = FALSE
  /\ console = <<>> /\ outcome = "running" /\ propagated = None /\ result = None
  /\ calls = <<>> /\ segreqs = <<>> /\ outstanding = {} /\ next_request_id = 1
  /\ failing = None /\ reported = {} /\ stream_error = None
  /\ last_output = None /\ after_output = FALSE /\ last_event = "none"
  /\ nevents = 0 /\ nprompts = 0

DeltaEvent(agent, text) == [type |-> "delta", agent |-> agent, text |-> text]
OrchEvent(kind, text) == [type |-> "orchestrator", kind |-> kind, text |-> text]
OutputEvent(payload) == [type |-> "output", payload |-> payload]

\* The deltas fed here include a second agent and a delta without text.
FeedDeltas == Deltas \cup { <<"B", "world">>, <<"B", "">> }
FeedEvents(s) ==
  {DeltaEvent(d[1], d[2]) : d \in FeedDeltas}
  \cup (IF s \in MagenticSamples THEN {OrchEvent("task_ledger", "plan")} ELSE {})
  \cup {OutputEvent(p) : p \in Payloads}

\* Variant: a new instance starts with the line state the last one left.
LineLeftOver(prev) ==
  IF prev = <<>> THEN [console |-> <<>>, last |-> NoAgent, open |-> FALSE]
  ELSE [prev EXCEPT !.console = <<>>]

\* The locals main sets before the loop: last_stream_agent_id = None and
\* stream_line_open = False (current_agent = None in GroupChat).
LineInit(prev) == [console |-> <<>>, last |-> NoAgent, open |-> FALSE]

\* GroupChat: the AgentRunUpdateEvent branch; r.last is current_agent.
RenderGroupChat(r, agent, text) ==
  LET closed == IF r.last # NoAgent THEN Append(r.console, <<"nl">>) ELSE r.console
      c1 == IF r.last # agent
            THEN closed \o << <<"nl">>, <<"hdr", agent>> >> ELSE r.console
      c2 == IF text # "" THEN Append(c1, <<"txt", text>>) ELSE c1
  IN [console |-> c2, last |-> agent, open |-> r.open]

\* GroupChat: the WorkflowOutputEvent branch prints the final message.
RenderFinalMessage(r, message) ==
  Emit(r, << <<"nl">>, <<"nl">>, <<"nl">>, <<"final_message", message>>, <<"nl">>,
             <<"rule">>, <<"nl">> >>)

\* What the loop of sample s prints for one event.
Handle(s, r, ev) ==
  CASE ev.type = "delta" ->
         IF s = "groupchat" THEN RenderGroupChat(r, ev.agent, ev.text)
         ELSE RenderDelta(r, ev.agent, ev.text)
    [] ev.type = "orchestrator" -> RenderOrch(s, r, ev.kind, ev.text)
    [] ev.type = "output" ->
         IF s = "groupchat" THEN RenderFinalMessage(r, ev.payload) ELSE r

\* What the loop of sample s captures of one event.
Capture(s, out, ev) ==
  IF ev.type = "output" /\ s # "groupchat" THEN CaptureLast(out, ev.payload) ELSE out

\* The stream yields ev: any event to the first instance, the recorded one
\* to the second.
Fed(ev) ==
  /\ instance \in {1, 2}
  /\ ev \in FeedEvents(renderer)
  /\ IF instance = 1
     THEN Len(fed) < MaxFeed /\ fed' = Append(fed, ev) /\ pos' = pos
     ELSE pos <= Len(fed) /\ fed[pos] = ev /\ fed' = fed /\ pos' = pos + 1
  /\ line' = Handle(renderer, line, ev)
  /\ output' = Capture(renderer, output, ev)
  /\ UNCHANGED << renderRest, renderer, instance, first, second >>

\* AgentRunUpdateEvent carrying an agent's delta.
RenderAgentDelta(agent, text) ==
  /\ renderer \in RenderSamples
  /\ Fed(DeltaEvent(agent, text))

\* AgentRunUpdateEvent of the Magentic orchestrator.
RenderOrchestratorNote(kind, text) ==
  /\ renderer \in MagenticSamples
  /\ Fed(OrchEvent(kind, text))

\* WorkflowOutputEvent.
RenderOutput(payload) ==
  /\ renderer \in RenderSamples
  /\ Fed(OutputEvent(payload))

\* The code after the stream: the line is closed and the result reported.
Report(s, r, out) ==
  IF s = "groupchat"
  THEN Emit(r, << <<"nl">>, <<"workflow_completed">>, <<"nl">> >>)
  ELSE Emit(CloseLine(r), FinalReport(s, out))

Ended(s, r, out) ==
  [console |-> Report(s, r, out).console, result |-> FinalResult(s, out)]

\* The stream is exhausted (the loop of plan ends once it has seen an Output).
RenderEnd ==
  /\ instance = 1 \/ (instance = 2 /\ pos > Len(fed))
  /\ renderer = "plan" => \E i \in 1..Len(fed) : fed[i].type = "output"
  /\ IF instance = 1
     THEN /\ first' = Some(Ended(renderer, line, output))
          /\ instance' = 2
          /\ pos' = 1
          /\ line' = LineInit(line)
          /\ output' = None
          /\ UNCHANGED second
     ELSE /\ second' = Some(Ended(renderer, line, output))
          /\ instance' = 3
          /\ UNCHANGED << first, pos, line, output >>
  /\ UNCHANGED << renderRest, renderer, fed >>

RenderInit ==
  /\ renderer \in RenderSamples
  /\ fed = <<>> /\ instance = 1 /\ pos = 0
  /\ line = LineInit(<<>>) /\ output = None
  /\ first = None /\ second = None

RenderSpecInit == RenderInit /\ LoopIdle /\ RenderRestIdle

RenderNext ==
  \/ \E d \in FeedDeltas : RenderAgentDelta(d[1], d[2])
  \/ RenderOrchestratorNote("task_ledger", "plan")
  \/ \E p \in Payloads : RenderOutput(p)
  \/ RenderEnd

RenderSpec == RenderSpecInit /\ [][RenderNext]_renderVars

\* ===========================================================================
\* The conversation context run_workflow prints when a RequestInfoEvent
\* carries an AgentInputRequest.

MaxConversation == 3
RecentTurns == 2
PreviewLimit == 200

\* A text of n characters c.
Fill(c, n) == [i \in 1..n |-> c]

\* str[:n]
Take(text, n) == SubSeq(text, 1, IF Len(text) < n THEN Len(text) ELSE n)

\* ChatMessage: role is None or Some(role), text is None or Some(characters).
Messages ==
  { [role |-> Some("user"), text |-> Some(Fill("u", 5))],
    [role |-> Some("assistant"), text |-> Some(Fill("a", PreviewLimit))],
    [role |-> Some("assistant"), text |-> Some(Fill("b", PreviewLimit + 1))],
    [role |-> None, text |-> None] }

RECURSIVE Conversations(_)
Conversations(n) ==
  IF n = 0 THEN { <<>> }
  ELSE Conversations(n - 1)
         \cup { Append(c, m) : c \in {d \in Conversations(n - 1) : Len(d) = n - 1},
                               m \in Messages }

\* Variant: the oldest messages are shown.
RecentOldest(conv) ==
  IF Len(conv) > RecentTurns THEN SubSeq(conv, 1, RecentTurns) ELSE conv

\* conversation[-2:] if len(conversation) > 2 else conversation
Recent(conv) ==
  IF Len(conv) > RecentTurns
  THEN SubSeq(conv, Len(conv) - RecentTurns + 1, Len(conv)) ELSE conv

\* msg.role.value if msg.role else "unknown"
RoleOf(msg) == IF msg.role # None THEN msg.role[1] ELSE "unknown"

\* (msg.text or "")[:200]
Preview(msg) == Take(IF msg.text # None THEN msg.text[1] ELSE <<>>, PreviewLimit)

\* The request arrives: the messages to display are selected.
SelectRecent ==
  /\ ctx_pc = "request"
  /\ recent' = Recent(conversation)
  /\ ctx_pc' = "printing"
  /\ UNCHANGED << ctxRest, conversation, shown >>

\* One round of `for msg in recent`.
PrintContextLine ==
  /\ ctx_pc = "printing"
  /\ Len(shown) < Len(recent)
  /\ LET msg == recent[Len(shown) + 1] IN
       shown' = Append(shown, [role |-> RoleOf(msg), text |-> Preview(msg)])
  /\ UNCHANGED << ctxRest, conversation, recent, ctx_pc >>

\* The loop is over: the operator is asked for guidance.
AskGuidance ==
  /\ ctx_pc = "printing"
  /\ Len(shown) = Len(recent)
  /\ ctx_pc' = "input"
  /\ UNCHANGED << ctxRest, conversation, recent, shown >>

ContextInit ==
  /\ conversation \in Conversations(MaxConversation)
  /\ recent = <<>> /\ shown = <<>> /\ ctx_pc = "request"

ContextSpecInit == ContextInit /\ LoopIdle /\ ContextRestIdle

ContextNext == SelectRecent \/ PrintContextLine \/ AskGuidance

ContextSpec == ContextSpecInit /\ [][ContextNext]_ctxVars

\* ===========================================================================
\* Workflows/ConditionalEdges.py: three agents in a row, each followed by a
\* valid and an invalid edge. Texts are sequences of characters.

MinContent == 10
ErrorDetailLimit == 200

UpperCase == << "A", "B", "C", "D", "E", "F", "G", "H", "I", "J", "K", "L", "M",
                "N", "O", "P", "Q", "R", "S", "T", "U", "V", "W", "X", "Y", "Z" >>
LowerCase == << "a", "b", "c", "d", "e", "f", "g", "h", "i", "j", "k", "l", "m",
                "n", "o", "p", "q", "r", "s", "t", "u", "v", "w", "x", "y", "z" >>
Whitespace == {" ", "\t", "\n"}

\* str.lower()
LowerChar(c) ==
  IF \E i \in 1..Len(UpperCase) : UpperCase[i] = c
  THEN LowerCase[CHOOSE i \in 1..Len(UpperCase) : UpperCase[i] = c]
  ELSE c
TextLower(t) == [i \in 1..Len(t) |-> LowerChar(t[i])]

\* str.strip()
RECURSIVE StripLeft(_)
StripLeft(t) ==
  IF t # <<>> /\ t[1] \in Whitespace THEN StripLeft(Tail(t)) ELSE t
RECURSIVE StripRight(_)
StripRight(t) ==
  IF t # <<>> /\ t[Len(t)] \in Whitespace
  THEN StripRight(SubSeq(t, 1, Len(t) - 1)) ELSE t
TextStrip(t) == StripRight(StripLeft(t))

\* indicator in text
Contains(sub, t) ==
  \E i \in 1..(Len(t) - Len(sub) + 1) : SubSeq(t, i, i + Len(sub) - 1) = sub

error_indicators ==
  { <<"e", "r", "r", "o", "r">>, <<"f", "a", "i", "l", "e", "d">>,
    <<"c", "a", "n", "n", "o", "t">>, <<"u", "n", "a", "b", "l", "e">>,
    <<"s", "o", "r", "r", "y">> }

\* The texts an agent may answer with.
AgentTexts ==
  { <<"c", "o", "d", "e", " ", "9", "3", " ", "o", "k">>,
    <<"t", "o", "t", "a", "l", " ", "$", "9", ".", "0", "0">>,
    <<"S", "o", "r", "r", "y", ",", " ", "n", "o", "n", "e">>,
    <<"o", "r", "d", "e", "r", " ", "F", "A", "I", "L", "E", "D">>,
    <<"o", "k">>,
    <<" ", " ", " ", "c", "o", "d", "e", " ", "9", "3", " ", " ", " ">> }

\* AgentExecutorResponse: None, or a response whose agent_run_response is
\* None or Some(text).
AgentResponses ==
  { None, Some([agent_run_response |-> None]) }
  \cup { Some([agent_run_response |-> Some(t)]) : t \in AgentTexts }

is_valid_response(response) ==
  IF response = None \/ response[1].agent_run_response = None THEN FALSE
  ELSE LET raw == response[1].agent_run_response[1]
           text == TextLower(raw)
       IN IF \E indicator \in error_indicators : Contains(indicator, text) THEN FALSE
          ELSE IF Len(TextStrip(raw)) < MinContent THEN FALSE
          ELSE TRUE

\* Variant: the invalid edge looks for the error indicators only.
is_error_response(response) ==
  /\ response # None /\ response[1].agent_run_response # None
  /\ \E indicator \in error_indicators :
       Contains(indicator, TextLower(response[1].agent_run_response[1]))

is_invalid_response(response) == ~is_valid_response(response)

AgentStages == {"CatalogAgent", "OrderAgent", "InvoiceAgent"}

\* The edges main adds to the WorkflowBuilder.
Edges ==
  { [src |-> "CatalogAgent", dst |-> "OrderAgent", condition |-> "is_valid_response"],
    [src |-> "CatalogAgent", dst |-> "ErrorHandler", condition |-> "is_invalid_response"],
    [src |-> "OrderAgent", dst |-> "InvoiceAgent", condition |-> "is_valid_response"],
    [src |-> "OrderAgent", dst |-> "ErrorHandler", condition |-> "is_invalid_response"],
    [src |-> "InvoiceAgent", dst |-> "SuccessHandler", condition |-> "is_valid_response"],
    [src |-> "InvoiceAgent", dst |-> "ErrorHandler", condition |-> "is_invalid_response"] }

Condition(name, response) ==
  IF name = "is_valid_response" THEN is_valid_response(response)
  ELSE is_invalid_response(response)

\* The edges out of executor src that a response is sent along.
Taken(src, response) ==
  {edge \in Edges : edge.src = src /\ Condition(edge.condition, response)}

\* An agent receives its message and answers; the engine routes the answer.
RunAgent(name, response) ==
  /\ name \in AgentStages
  /\ response \in AgentResponses
  /\ \E m \in inbox :
       /\ m.target = name
       /\ inbox' = (inbox \ {m})
            \cup {[target |-> edge.dst, response |-> response] : edge \in Taken(name, response)}
  /\ trace' = Append(trace, [executor |-> name, response |-> response,
                             targets |-> {edge.dst : edge \in Taken(name, response)}])
  /\ UNCHANGED << edgeRest, outputs, shown_output >>

\* What error_handler yields.
ErrorOutput(response) ==
  [kind |-> "WORKFLOW STOPPED",
   details |-> IF response # None /\ response[1].agent_run_response # None
               THEN Take(response[1].agent_run_response[1], ErrorDetailLimit)
               ELSE <<"Unknown error">>]

error_handler ==
  /\ \E m \in inbox :
       /\ m.target = "ErrorHandler"
       /\ inbox' = inbox \ {m}
       /\ outputs' = Append(outputs, ErrorOutput(m.response))
       /\ trace' = Append(trace, [executor |-> "ErrorHandler", response |-> m.response,
                                  targets |-> {}])
  /\ UNCHANGED << edgeRest, shown_output >>

\* What success_handler yields.
SuccessOutput(response) ==
  [kind |-> "ORDER COMPLETE",
   details |-> IF response # None /\ response[1].agent_run_response # None
               THEN response[1].agent_run_response[1]
               ELSE <<"no details available">>]

success_handler ==
  /\ \E m \in inbox :
       /\ m.target = "SuccessHandler"
       /\ inbox' = inbox \ {m}
       /\ outputs' = Append(outputs, SuccessOutput(m.response))
       /\ trace' = Append(trace, [executor |-> "SuccessHandler", response |-> m.response,
                                  targets |-> {}])
  /\ UNCHANGED << edgeRest, shown_output >>

\* workflow.run has returned: main prints the first output, if any.
PrintOutputs ==
  /\ inbox = {}
  /\ shown_output = "running"
  /\ shown_output' = IF outputs # <<>> THEN outputs[1].kind ELSE "No outputs received"
  /\ UNCHANGED << edgeRest, inbox, trace, outputs >>

\* set_start_executor("CatalogAgent"); workflow.run(request)
EdgesInit ==
  /\ inbox = {[target |-> "CatalogAgent", response |-> None]}
  /\ trace = <<>> /\ outputs = <<>> /\ shown_output = "running"

EdgesSpecInit == EdgesInit /\ LoopIdle /\ EdgesRestIdle

EdgesNext ==
  \/ \E name \in AgentStages, response \in AgentResponses : RunAgent(name, response)
  \/ error_handler
  \/ success_handler
  \/ PrintOutputs

EdgesSpec == EdgesSpecInit /\ [][EdgesNext]_edgeVars

\* ===========================================================================
\* AzureAI.Orchestration.GroupChat.py: the group chat asks select_next_speaker
\* for each turn, lets the selected agent speak, records the turn and counts
\* the round.

MaxStartRound == 5
MaxStartHistory == 2
RoundLimit == 4

Speakers == {"user", "MathAgent", "TemperatureConversionAgent"}
Turn(name) == [speaker |-> name]

RECURSIVE Histories(_)
Histories(n) ==
  IF n = 0 THEN { <<>> }
  ELSE Histories(n - 1)
         \cup { Append(h, Turn(name)) : h \in {g \in Histories(n - 1) : Len(g) = n - 1},
                                        name \in Speakers }

GroupChatStateSnapshot(idx, turns) == [round_index |-> idx, history |-> turns]

\* Variant: the chat ends one round later.
select_one_round_late(state) ==
  LET last_speaker == IF state.history # <<>>
                      THEN Some(state.history[Len(state.history)].speaker) ELSE None
  IN IF state.round_index > RoundLimit THEN None
     ELSE IF last_speaker = Some("MathAgent") THEN Some("TemperatureConversionAgent")
     ELSE Some("MathAgent")

select_next_speaker(state) ==
  LET round_idx == state.round_index
      last_speaker == IF state.history # <<>>
                      THEN Some(state.history[Len(state.history)].speaker) ELSE None
  IN IF round_idx >= RoundLimit THEN None
     ELSE IF last_speaker = Some("MathAgent") THEN Some("TemperatureConversionAgent")
     ELSE Some("MathAgent")

\* The chat calls the selection function for the next turn.
SelectSpeaker ==
  /\ chat_pc = "select"
  /\ LET next == select_next_speaker(GroupChatStateSnapshot(round_index, history)) IN
       /\ selected' = Append(selected, next)
       /\ speaker' = next
       /\ chat_pc' = IF next = None THEN "finished" ELSE "speak"
  /\ UNCHANGED << chatRest, round_index, history, chat_start >>

\* The selected agent speaks: the turn is recorded and the round counted.
Speak ==
  /\ chat_pc = "speak"
  /\ history' = Append(history, Turn(speaker[1]))
  /\ round_index' = round_index + 1
  /\ speaker' = None
  /\ chat_pc' = "select"
  /\ UNCHANGED << chatRest, selected, chat_start >>

ChatInit ==
  /\ round_index \in 0..MaxStartRound
  /\ history \in Histories(MaxStartHistory)
  /\ chat_start = Some(GroupChatStateSnapshot(round_index, history))
  /\ speaker = None /\ selected = <<>> /\ chat_pc = "select"

ChatSpecInit == ChatInit /\ LoopIdle /\ ChatRestIdle

ChatNext == SelectSpeaker \/ Speak

ChatSpec == ChatSpecInit /\ [][ChatNext]_chatVars

\* ===========================================================================
\* AzureAI.CleanUp.py: main reads the endpoint, asks for confirmation, and
\* then lists and deletes the agents, threads, vector stores and files.

MaxItems == 2

EndpointVariables ==
  << "AZURE_AI_PROJECT_ENDPOINT", "PROJECT_ENDPOINT", "AZURE_AI_PROJECT" >>

\* os.environ.get(name): None when unset, else the value (which may be "").
Environments ==
  { << a, b, c >> : a \in {None, Some("https://a")},
                    b \in {None, Some(""), Some("https://b")},
                    c \in {None, Some("https://c")} }

\* Python truthiness of an optional string.
Set(value) == value # None /\ value # Some("")

\* x or y or z
FirstSet(env) ==
  IF Set(env[1]) THEN env[1] ELSE IF Set(env[2]) THEN env[2] ELSE env[3]

RawConfirmations == {"DELETE ALL", "delete all", "DELETE ALL ", "", "yes"}

ResourceKinds == << "agents", "threads", "vector_stores", "files" >>

\* What main does after the cleanup function of a kind has returned.
AfterKind(kind) ==
  CASE kind = "agents" -> "threads"
    [] kind = "threads" -> "vector_stores"
    [] kind = "vector_stores" -> "files"
    [] kind = "files" -> "summary"

\* project_endpoint = ... ; if not project_endpoint: return
ReadEndpoint ==
  /\ clean_pc = "start"
  /\ project_endpoint' = FirstSet(environ)
  /\ clean_pc' = IF Set(FirstSet(environ)) THEN "confirm" ELSE "done"
  /\ UNCHANGED << cleanRest, environ, confirmation, todo, list_calls, delete_calls,
                  total_deleted, total_failed, deleted, failed, returned >>

\* Variant: the confirmation is compared without regard to case and blanks.
ConfirmedLoosely(raw) == raw \in {"DELETE ALL", "delete all", "DELETE ALL "}

\* confirmation != "DELETE ALL" is false
Confirmed(raw) == raw = "DELETE ALL"

\* confirmation = input(...); if confirmation != "DELETE ALL": return
Confirm(raw) ==
  /\ clean_pc = "confirm"
  /\ confirmation' = Some(raw)
  /\ clean_pc' = IF Confirmed(raw) THEN ResourceKinds[1] ELSE "done"
  /\ UNCHANGED << cleanRest, environ, project_endpoint, todo, list_calls,
                  delete_calls, total_deleted, total_failed, deleted, failed,
                  returned >>

\* return deleted, failed: main adds the pair to its totals and goes on to
\* the next cleanup function, whose counters start at zero.
Return(kind, listing_raised, found, d, f) ==
  /\ returned' = Some([kind |-> kind, listing_raised |-> listing_raised,
                        found |-> found, deleted |-> d, failed |-> f])
  /\ total_deleted' = total_deleted + d
  /\ total_failed' = total_failed + f
  /\ deleted' = 0 /\ failed' = 0
  /\ todo' = None
  /\ clean_pc' = AfterKind(kind)

\* A cleanup function lists its resources: the call raises (the except
\* clause around the function body prints the error), or returns n
\* resources; with none to delete the function returns.
ListResources(n, raises) ==
  /\ \E k \in 1..Len(ResourceKinds) : clean_pc = ResourceKinds[k]
  /\ todo = None
  /\ list_calls' = Append(list_calls, clean_pc)
  /\ IF raises \/ n = 0
     THEN Return(clean_pc, raises, IF raises THEN 0 ELSE n, deleted, failed)
     ELSE /\ clean_pc' = clean_pc /\ todo' = Some([i \in 1..n |-> i])
          /\ UNCHANGED << total_deleted, total_failed, deleted, failed, returned >>
  /\ UNCHANGED << cleanRest, environ, project_endpoint, confirmation, delete_calls >>

\* Variant: the delete loop stops at the first delete call that raises.
StopAtFailure(rest, ok) == IF ok THEN rest ELSE <<>>

\* The resources the delete loop still visits after one attempt: the inner
\* try/except catches a failed delete and the loop goes on.
AfterAttempt(rest, ok) == rest

\* One round of the delete loop: the call succeeds or raises. The list
\* that was found is what the loop has attempted so far and what it still
\* holds.
DeleteResource(ok) ==
  /\ \E k \in 1..Len(ResourceKinds) : clean_pc = ResourceKinds[k]
  /\ todo # None
  /\ delete_calls' = Append(delete_calls, [kind |-> clean_pc, id |-> Head(todo[1]),
                                           raised |-> ~ok])
  /\ LET d == IF ok THEN deleted + 1 ELSE deleted
         f == IF ok THEN failed ELSE failed + 1
         rest == AfterAttempt(Tail(todo[1]), ok)
     IN IF rest = <<>>
        THEN Return(clean_pc, FALSE, Len(todo[1]) + deleted + failed, d, f)
        ELSE /\ clean_pc' = clean_pc /\ todo' = Some(rest)
             /\ deleted' = d /\ failed' = f
             /\ UNCHANGED << total_deleted, total_failed, returned >>
  /\ UNCHANGED << cleanRest, environ, project_endpoint, confirmation, list_calls >>

\* The summary is printed and main returns.
PrintSummary ==
  /\ clean_pc = "summary"
  /\ clean_pc' = "done"
  /\ UNCHANGED << cleanRest, environ, project_endpoint, confirmation, todo,
                  list_calls, delete_calls, total_deleted, total_failed,
                  deleted, failed, returned >>

CleanInit ==
  /\ environ \in Environments
  /\ project_endpoint = None /\ confirmation = None /\ clean_pc = "start"
  /\ todo = None /\ list_calls = <<>> /\ delete_calls = <<>>
  /\ total_deleted = 0 /\ total_failed = 0
  /\ deleted = 0 /\ failed = 0 /\ returned = None

CleanSpecInit == CleanInit /\ LoopIdle /\ CleanRestIdle

CleanNext ==
  \/ ReadEndpoint
  \/ \E raw \in RawConfirmations : Confirm(raw)
  \/ \E n \in 0..MaxItems, raises \in BOOLEAN : ListResources(n, raises)
  \/ \E ok \in BOOLEAN : DeleteResource(ok)
  \/ PrintSummary

CleanSpec == CleanSpecInit /\ [][CleanNext]_cleanVars


\* ===========================================================================
\* The hosted agent's wrapper that follows the request's bearer token
\* (HostedAgent/MCPCustom/main.py). A string is a sequence of pieces, the
\* prefix "Bearer " being one piece; the MCP tool and the wrapped agent are
\* the environment: close and connect may raise.

MaxRequests == 3
MaxConcurrent == 2

BearerPrefix == "Bearer "

\* Python truthiness of an optional string.
NonEmpty(value) == value # None /\ value # Some(<<>>)

\* token if token.startswith("Bearer ") else f"Bearer {token}"
FormatToken(token) ==
  IF Len(token) > 0 /\ token[1] = BearerPrefix THEN token ELSE <<BearerPrefix>> \o token

\* The values of the environment variable MCP_BEARER_TOKEN.
EnvTokens == { None, Some(<<>>), Some(<<"t0">>) }

\* request.get("metadata", {}) or {}: the two keys the wrapper reads.
Metadata(a, b) == [mcp_bearer_token |-> a, authorization |-> b]
Metadatas ==
  { Metadata(None, None),
    Metadata(Some(<<>>), Some(<<"t0">>)),
    Metadata(Some(<<"t1">>), None),
    Metadata(Some(<<BearerPrefix, "t1">>), Some(<<"t0">>)) }

\* bearer_token = metadata.get("mcp_bearer_token") or metadata.get("authorization")
\* new_token = None; if bearer_token: new_token = <formatted>
NewToken(metadata) ==
  LET bearer_token == IF NonEmpty(metadata.mcp_bearer_token)
                      THEN metadata.mcp_bearer_token
                      ELSE metadata.authorization
  IN IF NonEmpty(bearer_token) THEN Some(FormatToken(bearer_token[1])) ELSE None

\* Variant: the tool is reconnected on every request.
TokenChangedAlways(new_token, current) == TRUE

\* if new_token != current_token[0]
TokenChanged(new_token, current) == new_token # current

\* The coroutines that have not returned or raised.
Finished(h) == h.pc \in {"done", "raised"}
InFlight == {r \in 1..Len(handlers) : ~Finished(handlers[r])}

CloseCall(r) == [op |-> "close", request |-> r, authorization |-> headers]
ConnectCall(r, authorization) ==
  [op |-> "connect", request |-> r, authorization |-> authorization]
AgentRunCall(r, authorization) ==
  [op |-> "agent_run", request |-> r, authorization |-> authorization]

\* if new_token: headers["Authorization"] = new_token
\* else: headers.pop("Authorization", None)
UpdatedHeaders(new_token) == new_token

\* wrapped_agent_run from its entry to its first await: the token is read
\* and compared; the tool is closed if connected, else its headers are
\* updated and connect is called; with the same token the original
\* agent_run is called right away.
Enter(metadata) ==
  LET r == Len(handlers) + 1
      new_token == NewToken(metadata)
      h(at) == [pc |-> at, metadata |-> metadata, new_token |-> new_token,
                seen_token |-> current_token, seen_connected |-> is_connected,
                seen_headers |-> headers]
  IN /\ IF TokenChanged(new_token, current_token)
        THEN IF is_connected
             THEN /\ handlers' = Append(handlers, h("closing"))
                  /\ tool_calls' = Append(tool_calls, CloseCall(r))
                  /\ headers' = headers
             ELSE /\ handlers' = Append(handlers, h("connecting"))
                  /\ headers' = UpdatedHeaders(new_token)
                  /\ tool_calls' =
                       Append(tool_calls, ConnectCall(r, UpdatedHeaders(new_token)))
        ELSE /\ handlers' = Append(handlers, h("running"))
             /\ tool_calls' = Append(tool_calls, AgentRunCall(r, headers))
             /\ headers' = headers
     /\ UNCHANGED << mcpRest, MCP_BEARER_TOKEN, is_connected, current_token >>

\* The hosting server hands the next request to the wrapper once the one
\* before has been served.
HandleRequest(metadata) ==
  /\ InFlight = {}
  /\ Len(handlers) < MaxRequests
  /\ Enter(metadata)

\* The hosting server hands a request to the wrapper while others are
\* being served.
HandleConcurrently(metadata) ==
  /\ Len(handlers) < MaxConcurrent
  /\ Enter(metadata)

\* await mcp_tool.close() returns or raises (the warning is printed); the
\* headers are updated and connect is called.
CloseReturns(r, ok) ==
  /\ r \in 1..Len(handlers) /\ handlers[r].pc = "closing"
  /\ is_connected' = IF ok THEN FALSE ELSE is_connected
  /\ headers' = UpdatedHeaders(handlers[r].new_token)
  /\ tool_calls' =
       Append(tool_calls, ConnectCall(r, UpdatedHeaders(handlers[r].new_token)))
  /\ handlers' = [handlers EXCEPT ![r].pc = "connecting"]
  /\ UNCHANGED << mcpRest, MCP_BEARER_TOKEN, current_token >>

\* await mcp_tool.connect() returns: the token is recorded and the original
\* agent_run is called; or it raises, and so does wrapped_agent_run.
ConnectReturns(r, ok) ==
  /\ r \in 1..Len(handlers) /\ handlers[r].pc = "connecting"
  /\ IF ok
     THEN /\ is_connected' = TRUE
          /\ current_token' = handlers[r].new_token
          /\ tool_calls' = Append(tool_calls, AgentRunCall(r, headers))
          /\ handlers' = [handlers EXCEPT ![r].pc = "running"]
     ELSE /\ handlers' = [handlers EXCEPT ![r].pc = "raised"]
          /\ UNCHANGED << is_connected, current_token, tool_calls >>
  /\ UNCHANGED << mcpRest, MCP_BEARER_TOKEN, headers >>

\* return await original_agent_run(context)
AgentRunReturns(r) ==
  /\ r \in 1..Len(handlers) /\ handlers[r].pc = "running"
  /\ handlers' = [handlers EXCEPT ![r].pc = "done"]
  /\ UNCHANGED << mcpRest, MCP_BEARER_TOKEN, headers, is_connected, current_token,
                  tool_calls >>

\* main: the initial headers carry the configured token, the tool is
\* created with them, the wrapper records them and the agent's context
\* connects the tool.
McpInit ==
  /\ MCP_BEARER_TOKEN \in EnvTokens
  /\ headers = IF NonEmpty(MCP_BEARER_TOKEN)
               THEN Some(FormatToken(MCP_BEARER_TOKEN[1])) ELSE None
  /\ current_token = headers
  /\ is_connected = TRUE
  /\ handlers = <<>> /\ tool_calls = <<>>

McpSpecInit == McpInit /\ LoopIdle /\ McpRestIdle

\* Requests served one after the other.
McpNext ==
  \/ \E metadata \in Metadatas : HandleRequest(metadata)
  \/ \E r \in 1..MaxRequests, ok \in BOOLEAN : CloseReturns(r, ok)
  \/ \E r \in 1..MaxRequests, ok \in BOOLEAN : ConnectReturns(r, ok)
  \/ \E r \in 1..MaxRequests : AgentRunReturns(r)

McpSpec == McpSpecInit /\ [][McpNext]_mcpVars

\* Requests served concurrently: the coroutines interleave at their awaits.
McpConcurrentNext ==
  \/ \E metadata \in Metadatas : HandleConcurrently(metadata)
  \/ \E r \in 1..MaxConcurrent, ok \in BOOLEAN : CloseReturns(r, ok)
  \/ \E r \in 1..MaxConcurrent, ok \in BOOLEAN : ConnectReturns(r, ok)
  \/ \E r \in 1..MaxConcurrent : AgentRunReturns(r)

McpConcurrentSpec == McpSpecInit /\ [][McpConcurrentNext]_mcpVars


\* ===========================================================================
\* The human-in-the-loop loops under the conditions of their termination:
\* the engine reports no failure and ends every stream it opens, the
\* transport does not fail, and the operator never chooses exit and gives a
\* valid choice in the end.

\* The operator types a line that is not an exit choice (plan).
ChooseNoExit(raw, comments, lines) ==
  /\ Lower(Strip(raw)) \notin ExitChoices
  /\ PlanChoice(raw, comments, lines)

\* The operator types one of the valid choices 1 to 4 (plan).
ChooseValid ==
  \E raw \in RawChoices, c \in RawComments, l \in RawPlans :
    Lower(Strip(raw)) \in ValidChoices /\ PlanChoice(raw, c, l)

\* The operator types an answer that is not exit (clar).
AnswerNoExit(raw) ==
  /\ Lower(Strip(raw)) # "exit"
  /\ ClarAnswer(raw)

LiveInit == Init /\ sample \in HitlSamples

\* What the operator types here: approve, or a line that is no choice.
LiveChoices == {"1", "7"}

LiveNext ==
  \/ StreamCall
  \/ OnAgentDelta("A", "Hello ")
  \/ OnOrchestratorNote("task_ledger", "plan")
  \/ \E k \in MagenticKinds \cup SequentialKinds, raw \in RawGuidance : OnRequestInfo(k, raw)
  \/ \E p \in Payloads : OnOutput(p)
  \/ \E st \in {"IDLE", "IDLE_WITH_PENDING_REQUESTS"} : OnStatus(st)
  \/ StreamEnd
  \/ Finish
  \/ \E raw \in LiveChoices, l \in RawPlans : ChooseNoExit(raw, "", l)
  \/ \E raw \in RawAnswers : AnswerNoExit(raw)

\* The stream the engine opened ends; the loop's own steps are taken; the
\* operator gives a valid choice after finitely many invalid ones.
LiveSpec ==
  /\ LiveInit /\ [][LiveNext]_vars
  /\ WF_vars(StreamEnd)
  /\ WF_vars(Finish)
  /\ WF_vars(ChooseValid)
  /\ WF_vars(\E raw \in RawAnswers : AnswerNoExit(raw))

\* ===========================================================================
\* Properties.

Resume == "send_responses_streaming"
Start == "run_stream"
Printed(token) == \E i \in 1..Len(console) : console[i] = token
Requests == next_request_id - 1
ResumeCalls == {i \in 1..Len(calls) : calls[i].op = Resume}
\* The kind of request a sample collects a reply for.
AnsweredKind ==
  CASE sample = "plan" -> "PLAN_REVIEW"
    [] sample = "clar" -> "TOOL_APPROVAL"
    [] sample = "reqinfo" -> "AGENT_INPUT"
    [] OTHER -> "none"
AllAnswerable ==
  \A i \in 1..Len(segreqs) : \A k \in 1..Len(segreqs[i]) :
    segreqs[i][k].kind = AnsweredKind

\* C1: while a request the engine emitted is unanswered, the loop never
\* calls run_stream; the stream call it makes next is send_responses_streaming.
C1_NoStartWhileRequestPending ==
  [][ (Len(calls') > Len(calls) /\ outstanding # {})
        => calls'[Len(calls')].op = Resume ]_vars

\* C2: for every request R a stream delivered, the next stream call is a
\* resume whose mapping has exactly the key R, so no second request is
\* processed before it.
C2_NextResumeHasExactlyKey ==
  \A i \in 1..(Len(calls) - 1) : \A k \in 1..Len(segreqs[i]) :
    /\ calls[i + 1].op = Resume
    /\ DOMAIN calls[i + 1].replies = {segreqs[i][k].request_id}

\* C3 (as claimed): when the event sequence ends in an Output and the loop
\* runs to its end, the final result is that Output's payload text.
C3_ResultIsOutputPayload ==
  (sample \in MagenticSamples /\ outcome = "completed" /\ last_event = "output")
    => result = (IF last_output[1] = <<>> THEN None
                 ELSE Some(last_output[1][Len(last_output[1])]))

\* C3 (amended): when the event sequence ends in an Output whose payload
\* holds at least one message and the loop runs to its end, the final result
\* reported is the text of that payload's last message; reqinfo prints the
\* messages of every Output payload as they are.
C3_ResultIsLastMessageOfOutput ==
  /\ (sample \in MagenticSamples /\ outcome = "completed" /\ last_event = "output"
        /\ last_output[1] # <<>>)
       => /\ result = Some(last_output[1][Len(last_output[1])])
          /\ Printed(<<"final_result", last_output[1][Len(last_output[1])]>>)
  /\ (sample = "reqinfo" /\ last_output # None)
       => Printed(<<"conversation", last_output[1]>>)

\* C3 witness: deltas "Hello " and "world" of agent A, then the Output whose
\* last message is "Hello world", and the loop has reported it.
C3_HelloWorldReported ==
  /\ sample = "magentic" /\ outcome = "completed" /\ last_event = "output"
  /\ Printed(<<"txt", "Hello ">>) /\ Printed(<<"txt", "world">>)
  /\ last_output = Some(<<"draft", "Hello world">>)
  /\ result = Some("Hello world")

\* C4 (as claimed): after an Output event the loop processes no further
\* event and makes no further stream call.
C4_NothingAfterOutput ==
  [][ last_output # None => (nevents' = nevents /\ calls' = calls) ]_vars

\* C4 (amended): after an Output event the loop makes no further stream
\* call; it still processes the events the current stream delivers.
C4_NoStreamCallAfterOutput ==
  [][ last_output # None => calls' = calls ]_vars

\* C4 witness: reqinfo processed the IDLE status that followed the Output
\* and ended.
C4_StatusProcessedAfterOutput ==
  /\ sample = "reqinfo" /\ outcome = "completed"
  /\ after_output /\ last_event = "status"

C6_TerminalAfterFailure ==
  [][ failing # None => (calls' = calls /\ nprompts' = nprompts) ]_vars

\* C6 witness: plan, after one request/reply cycle, saw a failure in the
\* resumed stream and ended.
C6_FailureAfterReply ==
  /\ sample = "plan" /\ pc = "done" /\ failing # None
  /\ Len(calls) = 2 /\ nprompts > 0

\* C7: after a stream has raised, the loop makes no further stream call.
C7_NoRetryAfterStreamError ==
  [][ stream_error # None => calls' = calls ]_vars

\* C7 witness: the resumed stream of reqinfo raised a transport error.
C7_ResumedStreamRaised ==
  /\ sample = "reqinfo" /\ pc = "done" /\ failing = None
  /\ stream_error # None /\ Len(calls) = 2 /\ calls[2].op = Resume

C9_OneResumePerRequest ==
  (sample \in HitlSamples /\ outcome = "completed" /\ AllAnswerable
     /\ \A i \in 1..Len(segreqs) : Len(segreqs[i]) <= 1)
    => /\ Cardinality(ResumeCalls) = Requests
       /\ \A i \in ResumeCalls : i > 1 /\ segreqs[i - 1] # <<>>

\* C10: every request a stream delivered, also when the stream delivered
\* two or more, has a reply under its own id in the mapping of the stream
\* call that follows. Stated here for the requests of the kind the sample
\* collects a reply for.
C10_EveryRequestAnswered ==
  \A i \in 1..(Len(calls) - 1) : \A k \in 1..Len(segreqs[i]) :
    segreqs[i][k].kind = AnsweredKind
      => /\ calls[i + 1].op = Resume
         /\ segreqs[i][k].request_id \in DOMAIN calls[i + 1].replies

\* The keys of the mapping a stream call carried.
CallKeys(i) == DOMAIN calls[i].replies

\* C11: a reply is dispatched at most once: no two stream calls of a run
\* carry the same request id, and when the loop decides its next call neither
\* the stored request nor the stored mapping holds an id that a call has
\* carried already.
C11_ReplyDispatchedOnce ==
  /\ \A i \in 1..Len(calls) : \A j \in 1..Len(calls) :
       i # j => CallKeys(i) \cap CallKeys(j) = {}
  /\ pc = "loop" =>
       /\ pending_responses # None =>
            \A i \in 1..Len(calls) : CallKeys(i) \cap DOMAIN pending_responses[1] = {}
       /\ pending_request # None =>
            \A i \in 1..Len(calls) : pending_request[1].request_id \notin CallKeys(i)

\* C11 witness: plan went through two request/reply cycles, and the third
\* call carries the second reply only.
C11_TwoCyclesInPlan ==
  /\ sample = "plan" /\ Len(calls) = 3
  /\ calls[2].op = Resume /\ CallKeys(2) = {1}
  /\ calls[3].op = Resume /\ CallKeys(3) = {2}

\* C12: once the operator has entered exit the run is over: no stream call
\* follows, the stored request's reply is in no call, nothing is stored for
\* sending, and no final result is reported.
C12_ExitEndsRun ==
  /\ [](outcome = "exit" =>
          /\ pc = "done"
          /\ result = None
          /\ \A i \in 1..Len(console) : console[i][1] # "final_result"
          /\ console[Len(console)] = <<"exiting">>
          /\ pending_responses = None
          /\ pending_request # None
          /\ \A i \in 1..Len(calls) : pending_request[1].request_id \notin CallKeys(i))
  /\ [][outcome = "exit" => calls' = calls]_vars

\* C12 witness: the operator of clar typed Exit at the second request, after
\* one reply had been sent.
C12_ExitAfterOneCycle ==
  /\ sample = "clar" /\ outcome = "exit"
  /\ Len(calls) = 2 /\ calls[2].op = Resume

\* C13: an invalid choice in plan review changes nothing but the console
\* and leaves the operator at the prompt: no stream call, no reply, the same
\* stored request, no error; the valid choice that follows an invalid one
\* builds exactly one reply, keyed by the stored request.
C13_InvalidChoiceReprompts ==
  /\ [][ (sample = "plan" /\ pc = "prompt"
            /\ console' = Append(console, <<"invalid_choice">>))
         => /\ pc' = "prompt"
            /\ calls' = calls
            /\ pending_responses' = pending_responses /\ pending_responses = None
            /\ pending_request' = pending_request
            /\ outcome' = "running" /\ propagated' = None /\ stream_error' = None ]_vars
  /\ [][ (sample = "plan" /\ pc = "prompt" /\ pc' = "loop")
         => /\ pending_responses' # None
            /\ DOMAIN pending_responses'[1] = {pending_request[1].request_id}
            /\ calls' = calls ]_vars

\* C13 witness: an invalid choice was followed by a valid one, whose reply was
\* then sent.
C13_ValidAfterInvalid ==
  /\ sample = "plan" /\ Printed(<<"invalid_choice">>)
  /\ Len(calls) = 2 /\ calls[2].op = Resume /\ nprompts = 2

\* The participant header of the console line that ends with token i: the
\* header reached by going back over streamed text, if there is one.
RECURSIVE LineHeader(_, _)
LineHeader(c, i) ==
  IF i = 0 THEN None
  ELSE IF c[i][1] = "hdr" THEN Some(c[i][2])
  ELSE IF c[i][1] = "txt" THEN LineHeader(c, i - 1)
  ELSE None

\* The text an agent delta wrote ("chunk" is the text of the update that is
\* no delta).
IsDeltaText(token) == token[1] = "txt" /\ token # <<"txt", "chunk">>

\* C15: an orchestrator block starts on a line of its own and every delta
\* text on the console stands on a line that begins with a participant
\* header, so no delta text follows an orchestrator block directly.
C15_DeltaTextUnderHeader ==
  \A i \in 1..Len(console) :
    /\ console[i][1] = "orch" => (i > 1 /\ console[i - 1] = <<"nl">>)
    /\ IsDeltaText(console[i]) => LineHeader(console, i - 1) # None

\* C14: in a sequence of agent deltas each delta's text is appended to the
\* open line when that line's header names the delta's participant; otherwise
\* (another participant's line is open, or none) the open line is ended and a
\* new header naming the participant is written before the text.
C14_HeaderExactlyOnChange ==
  [][ (instance = 1 /\ Len(fed') = Len(fed) + 1
         /\ \A i \in 1..Len(fed') : fed'[i].type = "delta")
      => LET ev == fed'[Len(fed')]
             open == LineHeader(line.console, Len(line.console))
             text == IF ev.text = "" THEN <<>> ELSE << <<"txt", ev.text>> >>
         IN line'.console =
              IF open = Some(ev.agent)
              THEN line.console \o text
              ELSE line.console
                     \o (IF open # None THEN << <<"nl">> >> ELSE <<>>)
                     \o << <<"nl">>, <<"hdr", ev.agent>> >> \o text ]_renderVars

\* C14 witness: GroupChat rendered two deltas of A under one header and
\* then a delta of B under a new one.
C14_TwoAgentsRendered ==
  /\ renderer = "groupchat" /\ instance = 1
  /\ fed = << DeltaEvent("A", "Hello "), DeltaEvent("A", "world"),
              DeltaEvent("B", "world") >>
  /\ line.console = << <<"nl">>, <<"hdr", "A">>, <<"txt", "Hello ">>,
                       <<"txt", "world">>, <<"nl">>, <<"nl">>, <<"hdr", "B">>,
                       <<"txt", "world">> >>

TextOf(msg) == IF msg.text # None THEN msg.text[1] ELSE <<>>

\* C17: when the operator is asked, the context shown is the last
\* min(L, 2) messages of the conversation in their order, each with its
\* role and the first min(length, 200) characters of its text.
C17_LastTwoTurnsShown ==
  ctx_pc = "input" =>
    LET L == Len(conversation)
        n == IF L < 2 THEN L ELSE 2
    IN /\ Len(shown) = n
       /\ \A k \in 1..n :
            LET msg == conversation[L - n + k]
                orig == TextOf(msg)
            IN /\ shown[k].role = (IF msg.role = None THEN "unknown" ELSE msg.role[1])
               /\ Len(shown[k].text) = (IF Len(orig) < 200 THEN Len(orig) ELSE 200)
               /\ \A i \in 1..Len(shown[k].text) : shown[k].text[i] = orig[i]

\* C17 witness: of three messages the last two were shown, the 201
\* characters of the last one cut to 200.
C17_LongMessageCut ==
  /\ ctx_pc = "input" /\ Len(conversation) = 3 /\ Len(shown) = 2
  /\ Len(TextOf(conversation[1])) = 5
  /\ Len(TextOf(conversation[3])) = 201
  /\ Len(shown[2].text) = 200 /\ shown[2].text[1] = "b"

\* The stage that follows an agent on its valid edge.
StageAfter(name) ==
  CASE name = "CatalogAgent" -> "OrderAgent"
    [] name = "OrderAgent" -> "InvoiceAgent"
    [] name = "InvoiceAgent" -> "SuccessHandler"

\* The positions of the trace at which an agent ran.
AgentRuns == {i \in 1..Len(trace) : trace[i].executor \in AgentStages}

\* C18: the two edge conditions are complements; after each agent exactly
\* one edge is taken, to the next stage when the response is valid and to
\* ErrorHandler otherwise; no agent runs after ErrorHandler; the workflow
\* yields exactly one output, WORKFLOW STOPPED or ORDER COMPLETE, the latter
\* only when all three responses were valid.
C18_ExactlyOneEdgePerStage ==
  /\ \A r \in AgentResponses : is_invalid_response(r) = ~is_valid_response(r)
  /\ \A i \in AgentRuns :
       trace[i].targets = (IF is_valid_response(trace[i].response)
                           THEN {StageAfter(trace[i].executor)} ELSE {"ErrorHandler"})
  /\ \A i \in 1..Len(trace) : \A j \in 1..Len(trace) :
       (trace[i].executor = "ErrorHandler" /\ i < j) => j \notin AgentRuns
  /\ Len(outputs) <= 1
  /\ inbox = {} => Len(outputs) = 1
  /\ \A k \in 1..Len(outputs) :
       /\ outputs[k].kind \in {"WORKFLOW STOPPED", "ORDER COMPLETE"}
       /\ outputs[k].kind = "ORDER COMPLETE" =>
            /\ Cardinality(AgentRuns) = 3
            /\ \A i \in AgentRuns : is_valid_response(trace[i].response)
  /\ shown_output # "No outputs received"

\* C18 witness: the catalog answer was valid, the order answer was not, and
\* the workflow stopped at ErrorHandler without running InvoiceAgent.
C18_StoppedAfterOrderAgent ==
  /\ Len(trace) = 3 /\ inbox = {}
  /\ trace[1].executor = "CatalogAgent" /\ is_valid_response(trace[1].response)
  /\ trace[2].executor = "OrderAgent"
  /\ trace[2].response = Some([agent_run_response |->
        Some(<<" ", " ", " ", "c", "o", "d", "e", " ", "9", "3", " ", " ", " ">>)])
  /\ trace[3].executor = "ErrorHandler"
  /\ outputs[1].kind = "WORKFLOW STOPPED"
  /\ shown_output = "WORKFLOW STOPPED"

\* The chat started at round 0 with a history that does not end in a turn of
\* MathAgent.
StartedFresh ==
  /\ chat_start # None
  /\ chat_start[1].round_index = 0
  /\ LET h == chat_start[1].history IN
       h = <<>> \/ h[Len(h)].speaker # "MathAgent"

RoundRobin ==
  << Some("MathAgent"), Some("TemperatureConversionAgent"), Some("MathAgent"),
     Some("TemperatureConversionAgent"), None >>

\* C19: from round 0 and a history not ending in MathAgent the selections
\* are MathAgent, TemperatureConversionAgent, MathAgent,
\* TemperatureConversionAgent, None: no speaker twice in a row, each agent
\* twice; and whatever the start, None is returned exactly when
\* round_index >= 4.
C19_RoundRobinTwiceEach ==
  /\ (select_next_speaker(GroupChatStateSnapshot(round_index, history)) = None)
       <=> (round_index >= 4)
  /\ StartedFresh =>
       /\ Len(selected) <= 5
       /\ \A i \in 1..Len(selected) : selected[i] = RoundRobin[i]
       /\ \A i \in 1..(Len(selected) - 1) : selected[i] # selected[i + 1]
       /\ chat_pc = "finished" =>
            /\ selected = RoundRobin
            /\ \A a \in {"MathAgent", "TemperatureConversionAgent"} :
                 Cardinality({i \in 1..Len(selected) : selected[i] = Some(a)}) = 2
            /\ round_index = 4

\* C19 witness: a chat that started at round 0 after the user's turn has
\* finished after four turns.
C19_FourTurnsThenNone ==
  /\ chat_pc = "finished" /\ round_index = 4
  /\ chat_start = Some(GroupChatStateSnapshot(0, << Turn("user") >>))
  /\ Len(selected) = 5 /\ selected[5] = None
  /\ Len(history) = 5 /\ history[5].speaker = "TemperatureConversionAgent"

\* One of the three endpoint variables holds a non-empty value.
EndpointConfigured == \E i \in 1..3 : environ[i] # None /\ environ[i] # Some("")

\* C20: a list or delete call is issued only when an endpoint is configured
\* and the operator typed exactly DELETE ALL; after any other input the
\* script has ended with no list and no delete call.
C20_NoDeleteWithoutConfirmation ==
  /\ (delete_calls # <<>> \/ list_calls # <<>>)
       => (EndpointConfigured /\ confirmation = Some("DELETE ALL"))
  /\ (confirmation # None /\ confirmation # Some("DELETE ALL"))
       => (clean_pc = "done" /\ delete_calls = <<>> /\ list_calls = <<>>)
  /\ (clean_pc # "start" /\ ~EndpointConfigured)
       => (clean_pc = "done" /\ confirmation = None
           /\ delete_calls = <<>> /\ list_calls = <<>>)

\* C20 witness: with only the third variable set and DELETE ALL typed, the
\* script deleted an agent and a file and ended.
C20_DeletedAfterConfirmation ==
  /\ clean_pc = "done" /\ confirmation = Some("DELETE ALL")
  /\ environ = << None, Some(""), Some("https://c") >>
  /\ project_endpoint = Some("https://c")
  /\ \E i \in 1..Len(delete_calls) : delete_calls[i].kind = "agents"
  /\ \E i \in 1..Len(delete_calls) : delete_calls[i].kind = "files"
  /\ Len(list_calls) = 4

\* The delete calls a cleanup function of a kind issued, in order.
DeletesOf(kind) == SelectSeq(delete_calls, LAMBDA c : c.kind = kind)

\* C21: a cleanup function whose listing succeeded attempted every listed
\* resource exactly once, in order, whatever the earlier attempts did, and
\* returned deleted + failed = the number listed with failed = the number of
\* attempts that raised; one whose listing raised issued no delete and
\* returned (0, 0); either way main went on to the next kind, so that all
\* four kinds have been listed when the summary is reached.
C21_EveryListedResourceAttemptedOnce ==
  /\ returned # None =>
       LET r == returned[1]
           attempts == DeletesOf(r.kind)
       IN /\ r.listing_raised => (attempts = <<>> /\ r.deleted = 0 /\ r.failed = 0)
          /\ ~r.listing_raised =>
               /\ Len(attempts) = r.found
               /\ \A i \in 1..Len(attempts) : attempts[i].id = i
               /\ r.deleted + r.failed = r.found
               /\ r.failed = Cardinality({i \in 1..Len(attempts) : attempts[i].raised})
          /\ clean_pc \in {AfterKind(r.kind), "done"}
  /\ clean_pc \in {"summary", "done"} /\ confirmation = Some("DELETE ALL")
       => list_calls = ResourceKinds

\* C21 witness: the first of two agent deletes raised and the second was
\* still attempted; then listing the threads raised and main went on to the
\* vector stores.
C21_FailedDeleteThenFailedListing ==
  /\ clean_pc = "vector_stores"
  /\ returned = Some([kind |-> "threads", listing_raised |-> TRUE, found |-> 0,
                      deleted |-> 0, failed |-> 0])
  /\ delete_calls = << [kind |-> "agents", id |-> 1, raised |-> TRUE],
                       [kind |-> "agents", id |-> 2, raised |-> FALSE] >>
  /\ total_deleted = 1 /\ total_failed = 1

\* The positions in tool_calls of the calls of one kind a request issued.
CallsAt(r, op) ==
  {i \in 1..Len(tool_calls) : tool_calls[i].request = r /\ tool_calls[i].op = op}

DefaultHeader == Some(FormatToken(MCP_BEARER_TOKEN[1]))

\* C23: with MCP_BEARER_TOKEN configured, a request that carries no bearer
\* token has its original agent_run called, and runs, with the configured
\* default still in the tool's Authorization header.
C23_TokenlessRunsUnderDefault ==
  NonEmpty(MCP_BEARER_TOKEN) =>
    \A r \in 1..Len(handlers) :
      NewToken(handlers[r].metadata) = None =>
        /\ \A i \in CallsAt(r, "agent_run") :
             tool_calls[i].authorization = DefaultHeader
        /\ handlers[r].pc = "running" => headers = DefaultHeader

\* C26: with requests that carry different bearer tokens served
\* concurrently, while a request's original agent_run executes the tool's
\* Authorization header holds that request's own token.
C26_RunsUnderOwnToken ==
  \A r, q \in 1..Len(handlers) :
    ( /\ handlers[r].new_token # None /\ handlers[q].new_token # None
      /\ handlers[r].new_token # handlers[q].new_token
      /\ handlers[r].pc = "running" )
    => headers = handlers[r].new_token

\* C24: in the human-in-the-loop loops the first stream call of a run is
\* run_stream with the task and every later stream call is
\* send_responses_streaming, whatever the streams deliver.
C24_StartOnlyFirst ==
  sample \in HitlSamples =>
    \A i \in 1..Len(calls) : (calls[i].op = Start) <=> (i = 1)

\* C25: when a human-in-the-loop loop has run to its end, no collected
\* reply is left unsent, and the operator is never prompted once an Output
\* or a completion status has set the completion flag.
C25_NoReplyLostNoPromptAfterOutput ==
  /\ []((sample \in HitlSamples /\ outcome = "completed") => pending_responses = None)
  /\ [][ (sample \in HitlSamples /\ nprompts' > nprompts) => ~completed ]_vars

\* What the loop prints of the result it captured once it has ended.
FinalReported ==
  /\ sample = "plan" => (workflow_output # None
                           => Printed(<<"final_result", workflow_output[1]>>))
  /\ sample = "clar" => Printed(<<"workflow_completed">>)
  /\ sample = "reqinfo" => (last_output # None
                              => Printed(<<"conversation", last_output[1]>>))

\* C27: when the engine ends every stream and reports no failure and the
\* operator gives a valid choice other than exit after finitely many
\* attempts, a loop that has observed an Output eventually ends as
\* completed with the result it captured reported; and a loop ends as
\* completed only with its completion flag set, never on a count.
C27_TerminatesAfterOutput ==
  /\ (last_output # None) ~> (pc = "done" /\ outcome = "completed" /\ FinalReported)
  /\ []((pc = "done" /\ outcome = "completed") => completed)

\* C27 witness: the plan loop ended as completed after an invalid choice, a
\* valid one, a resumed stream and the Output.
C27_CompletedAfterRetryAndResume ==
  /\ sample = "plan" /\ pc = "done" /\ outcome = "completed"
  /\ Printed(<<"invalid_choice">>)
  /\ Len(calls) = 2 /\ calls[2].op = Resume
  /\ last_output # None /\ result # None

====
